---- MODULE Spec2Model ----
(***************************************************************************)
(* The stream resolution engine of api/proxy.ts: the bounded TTL cache     *)
(* (getCached, setCache), the extractors and the orchestrator resolveLink. *)
(*                                                                         *)
(* Strings are modelled as sequences of tokens: a URL such as              *)
(* "https://DOOD.li/e/x" is <<"https://", "DOOD", "/e/", "x">>.  includes  *)
(* is containment of a token, startsWith compares the first token,         *)
(* toLowerCase maps every token, and template strings concatenate.         *)
(*                                                                         *)
(* Two specifications share the variables:                                 *)
(*   SpecCache  callers put and get on one cache Map while the clock runs  *)
(*   Spec       resolveLink calls, one at a time, on cache.streams         *)
(***************************************************************************)
EXTENDS Integers, Sequences, FiniteSets, TLC

VARIABLES
    cacheStreams,   \* cache.streams: the Map's entries in insertion order
    now,            \* the reading of Date.now(), milliseconds
    lastPut,        \* history: key in use -> the data and the time of its latest setCache
    lastOp,         \* history: the latest cache operation and what it did
    nputs,          \* history: the number of setCache calls made so far
    call            \* the resolveLink calls: their position, locals and history

cacheVars == <<cacheStreams, lastPut, lastOp, nputs>>

vars == <<cacheStreams, now, lastPut, lastOp, nputs, call>>

(***************************************************************************)
(* Program constants                                                       *)
(***************************************************************************)
CACHE_LIMIT == 1000

CACHE_TTL ==
    [ providerUrls |-> 10 * 60 * 1000,
      posts        |-> 5 * 60 * 1000,
      meta         |-> 30 * 60 * 1000,
      streams      |-> 15 * 60 * 1000 ]

(***************************************************************************)
(* Bounds of the model                                                     *)
(***************************************************************************)
\* setCache calls in one behaviour of SpecCache
MaxPuts == 2

Null == [null |-> TRUE]

(***************************************************************************)
(* Map<string, CacheEntry<T>>: a sequence of [key, data, timestamp] in     *)
(* insertion order, at most one entry per key.                             *)
(***************************************************************************)
MapHas(map, key) == \E i \in 1..Len(map) : map[i].key = key

MapIndex(map, key) == CHOOSE i \in 1..Len(map) : map[i].key = key

MapGet(map, key) ==
    IF MapHas(map, key)
    THEN [data |-> map[MapIndex(map, key)].data,
          timestamp |-> map[MapIndex(map, key)].timestamp]
    ELSE Null

MapDelete(map, key) == SelectSeq(map, LAMBDA e : e.key # key)

\* a set on a Map read before the other entries were inserted
MapSetAlone(map, key, entry) ==
    << [key |-> key, data |-> entry.data, timestamp |-> entry.timestamp] >>

\* Map.set: an existing key keeps its position, a new key goes last
MapSet(map, key, entry) ==
    LET e == [key |-> key, data |-> entry.data, timestamp |-> entry.timestamp]
    IN  IF MapHas(map, key)
        THEN [map EXCEPT ![MapIndex(map, key)] = e]
        ELSE Append(map, e)

MapKeys(map) == {map[i].key : i \in 1..Len(map)}

(***************************************************************************)
(* getCached                                                               *)
(***************************************************************************)
FreshInclusive(age, ttl) == age <= ttl

Fresh(age, ttl) == age < ttl

GetCachedStaleOnly(map, key, ttl, t) ==
    LET entry == MapGet(map, key)
    IN  IF entry # Null /\ t - entry.timestamp > ttl
        THEN [data |-> entry.data, cached |-> TRUE]
        ELSE Null

GetCached(map, key, ttl, t) ==
    LET entry == MapGet(map, key)
    IN  IF entry # Null /\ Fresh(t - entry.timestamp, ttl)
        THEN [data |-> entry.data, cached |-> TRUE]
        ELSE Null

(***************************************************************************)
(* setCache                                                                *)
(***************************************************************************)
\* [...map.entries()].sort((a, b) => a[1].timestamp - b[1].timestamp)[0]:
\* the sort is stable, so element 0 is the first entry in insertion order
\* among those with the smallest timestamp (0 when the map is empty).
MinTimestamp(map) ==
    LET ts == {map[j].timestamp : j \in 1..Len(map)}
    IN  CHOOSE x \in ts : \A y \in ts : x <= y

MaxTimestamp(map) ==
    LET ts == {map[j].timestamp : j \in 1..Len(map)}
    IN  CHOOSE x \in ts : \A y \in ts : x >= y

\* the first index, in insertion order, of an entry stored at time t
FirstAt(map, t) ==
    CHOOSE i \in 1..Len(map) :
        /\ map[i].timestamp = t
        /\ \A j \in 1..(i - 1) : map[j].timestamp # t

NewestIndex(map) ==
    IF Len(map) = 0 THEN 0 ELSE FirstAt(map, MaxTimestamp(map))

OldestIndex(map) ==
    IF Len(map) = 0 THEN 0 ELSE FirstAt(map, MinTimestamp(map))

\* if (map.size > 1000) { ...; if (oldest) map.delete(oldest[0]); }
EvictTwo(map) ==
    IF Len(map) > CACHE_LIMIT /\ OldestIndex(map) # 0
    THEN LET m1 == MapDelete(map, map[OldestIndex(map)].key)
         IN  MapDelete(m1, m1[OldestIndex(m1)].key)
    ELSE map

Evict(map) ==
    IF Len(map) > CACHE_LIMIT /\ OldestIndex(map) # 0
    THEN MapDelete(map, map[OldestIndex(map)].key)
    ELSE map

SetCache(map, key, data, t) ==
    MapSet(Evict(map), key, [data |-> data, timestamp |-> t])

\* the entries setCache(map, ...) deletes before it inserts
Evicted(map) ==
    LET kept == MapKeys(Evict(map))
    IN  SelectSeq(map, LAMBDA e : e.key \notin kept)

\* the effect of setCache(cache.streams, key, data) on the cache and its history
DoPut(key, data) ==
    /\ cacheStreams' = SetCache(cacheStreams, key, data, now)
    /\ lastPut' = [k \in (DOMAIN lastPut) \cup {key} |->
                     IF k = key THEN [data |-> data, timestamp |-> now]
                     ELSE lastPut[k]]
    /\ lastOp' = [op |-> "put", key |-> key,
                  overwrite |-> MapHas(cacheStreams, key),
                  evicted |-> Evicted(cacheStreams),
                  sizeBefore |-> Len(cacheStreams),
                  oldestBefore |-> IF Len(cacheStreams) = 0 THEN 0
                                   ELSE MinTimestamp(cacheStreams)]
    /\ nputs' = nputs + 1

(***************************************************************************)
(* Strings: sequences of tokens                                            *)
(***************************************************************************)
\* the markers a token contains besides itself
Subs(tok) ==
    IF tok \in {"workers.dev", "r2.dev"} THEN {tok, ".dev"}
    ELSE IF tok = "r2.cloudflarestorage" THEN {tok, "cloudflarestorage"}
    ELSE {tok}

\* String.prototype.includes
Includes(s, m) == \E i \in 1..Len(s) : m \in Subs(s[i])

\* String.prototype.toLowerCase, token by token
LowerTok(tok) ==
    CASE tok = "DOOD"       -> "dood"
      [] tok = "PixelDrain" -> "pixeldrain"
      [] tok = "HubCloud"   -> "hubcloud"
      [] tok = "HTTPS:"     -> "https:"
      [] tok = ".MP4"       -> ".mp4"
      [] OTHER              -> tok

ToLowerCase(s) == [i \in 1..Len(s) |-> LowerTok(s[i])]

\* startsWith("http"), startsWith("//"), startsWith("/")
StartsWithHttp(s) == Len(s) > 0 /\ s[1] \in {"https:", "http:"}

StartsWithSlashes(s) == Len(s) > 0 /\ s[1] = "//"

StartsWithSlash(s) ==
    Len(s) > 0 /\ s[1] \in {"/", "//", "/u/", "/e/", "/api/file/", "/file/", "/?id="}

\* /\.(mp4|mkv|m3u8)/i.test(s)
HasMediaExt(s) ==
    \E x \in {".mp4", ".mkv", ".m3u8"} : Includes(ToLowerCase(s), x)

\* [a-zA-Z0-9]+ : the tokens that are file identifiers
IdTokens == {"abc123", "xyz789"}

PathTokens == {"/", "/u/", "/e/", "/api/file/", "/file/"}

QueryTokens == {"?download", "?dl=1", "/?id="}

\* url.match(/\/u\/([a-zA-Z0-9]+)/)?.[1]: the identifier after the first
\* occurrence of the path marker that one follows, or <<>> (undefined)
IdAfter(s, marker) ==
    LET hits == {i \in 1..(Len(s) - 1) : s[i] = marker /\ s[i + 1] \in IdTokens}
    IN  IF hits = {} THEN <<>>
        ELSE <<s[(CHOOSE i \in hits : \A j \in hits : i <= j) + 1]>>

\* href.split("/").pop()?.split("?")[0]: the text after the last "/" up to
\* the first "?", <<>> when it is empty
LastSegment(s) ==
    LET cut == {i \in 1..Len(s) : s[i] \in QueryTokens}
        end == IF cut = {} THEN Len(s)
               ELSE (CHOOSE i \in cut : \A j \in cut : i <= j) - 1
        tailSlash == \E i \in (end + 1)..Len(s) : s[i] = "/?id="
    IN  IF tailSlash \/ end = 0 \/ s[end] \in PathTokens \cup {"//"}
        THEN <<>>
        ELSE <<s[end]>>

(***************************************************************************)
(* StreamLink values                                                       *)
(***************************************************************************)
StreamLink(server, link, type) ==
    [server |-> server, link |-> link, type |-> type, quality |-> "HD"]

\* streamType
StreamType(url) ==
    IF Includes(ToLowerCase(url), ".m3u8") THEN "m3u8"
    ELSE IF Includes(ToLowerCase(url), ".mp4") THEN "mp4"
    ELSE "mkv"

PixeldrainDirect(fileId) ==
    <<"https:", "//", "pixeldrain", ".com", "/api/file/", fileId, "?download">>

(***************************************************************************)
(* The extractors.  Each takes the URL and what the network answers to its *)
(* fetches (Null: fetchHtml or fetchJson returned null) and computes the   *)
(* candidates as the code does.  A page is the record of the parts of the  *)
(* document the extractor's patterns look at; <<>> is a pattern that does  *)
(* not match.                                                              *)
(***************************************************************************)

\* pixeldrainExtractor; net.info is the answer of the /info endpoint:
\* video, whether mime_type is a string that includes "video"; malformed,
\* whether mime_type is a value without includes (a number, an object), so
\* that info?.mime_type?.includes("video") throws inside the try block and
\* the catch block leaves streams as it is
PixeldrainExtractor(url, net) ==
    LET fileId == IF IdAfter(url, "/u/") # <<>> THEN IdAfter(url, "/u/")
                  ELSE IdAfter(url, "/api/file/")
    IN  IF fileId # <<>>
        THEN IF net.info # Null /\ net.info.malformed
             THEN <<>>
             ELSE << StreamLink("Pixeldrain", PixeldrainDirect(fileId[1]),
                        IF net.info # Null /\ net.info.video THEN "mp4" ELSE "mkv") >>
        ELSE <<>>

\* a streamtapeExtractor without if (!html) return streams
StreamtapeExtractorUnguarded(url, net) ==
    IF net.html = Null THEN << StreamLink("Streamtape", url, "mp4") >>
    ELSE IF net.html.robotlink # <<>>
    THEN << StreamLink("Streamtape", <<"https:">> \o net.html.robotlink, "mp4") >>
    ELSE <<>>

\* streamtapeExtractor; net.html = [robotlink, token, norobot]
StreamtapeExtractor(url, net) ==
    IF net.html = Null THEN <<>>
    ELSE LET html == net.html
             first ==
                IF html.robotlink # <<>>
                THEN << StreamLink("Streamtape",
                          IF html.token # <<>>
                          THEN <<"https:">> \o html.robotlink \o <<"&token=">> \o html.token
                          ELSE <<"https:">> \o html.robotlink,
                          "mp4") >>
                ELSE <<>>
         IN  IF html.norobot # <<>> /\ Len(first) = 0
             THEN << StreamLink("Streamtape", <<"https:">> \o html.norobot, "mp4") >>
             ELSE first

\* url.replace(/dood\.(wf|cx|la|pm|so|ws|sh|to|re|yt)/, "dood.li"): the first
\* occurrence only
DoodNormalize(url) ==
    LET hits == {i \in 1..(Len(url) - 1) :
                    url[i] = "dood" /\ url[i + 1] \in {".wf", ".to", ".re"}}
    IN  IF hits = {} THEN url
        ELSE [url EXCEPT ![(CHOOSE i \in hits : \A j \in hits : i <= j) + 1] = ".li"]

\* doodstreamExtractor; net.html = [pass], net.passRes = [text] the body of
\* the pass_md5 endpoint, net.random the Math.random() part of the token
DoodstreamExtractor(url, net) ==
    IF net.html = Null THEN <<>>
    ELSE IF net.html.pass = <<>> THEN <<>>
    ELSE IF net.passRes = Null \/ net.passRes.text = <<>> THEN <<>>
    ELSE << [server |-> "Doodstream",
             link |-> net.passRes.text \o <<net.random, "?token=",
                          net.html.pass[Len(net.html.pass)], "&expiry=", ToString(net.now)>>,
             type |-> "mp4", quality |-> "HD",
             headers |-> [Referer |-> <<"https:", "//", "dood", ".li", "/">>]] >>

\* filemoonExtractor; net.html = [fileM3u8, sourcesFile, rawM3u8]
FilemoonExtractor(url, net) ==
    IF net.html = Null THEN <<>>
    ELSE LET html == net.html
             fileMatch == IF html.fileM3u8 # <<>> THEN html.fileM3u8 ELSE html.sourcesFile
         IN  IF fileMatch # <<>>
             THEN << StreamLink("Filemoon", fileMatch, "m3u8") >>
             ELSE IF html.rawM3u8 # <<>>
             THEN << StreamLink("Filemoon", html.rawM3u8, "m3u8") >>
             ELSE <<>>

\* mixdropExtractor; net.html = [wurl]
MixdropExtractor(url, net) ==
    IF net.html = Null THEN <<>>
    ELSE IF net.html.wurl = <<>> THEN <<>>
    ELSE << StreamLink("Mixdrop",
                IF StartsWithSlashes(net.html.wurl)
                THEN <<"https:">> \o net.html.wurl ELSE net.html.wurl,
                "mp4") >>

(***************************************************************************)
(* The link aggregators.  A document is [redirect, els, raw]: whether it   *)
(* holds a client-side redirect, its elements in document order, each      *)
(* [tag, cls, href, text], and the bare media URLs of its text.            *)
(***************************************************************************)
El(tag, cls, href, text) == [tag |-> tag, cls |-> cls, href |-> href, text |-> text]

Sel(cls, href) == [cls |-> cls, href |-> href]

\* a class selector, or a[href*="..."]
Matches(sel, el) ==
    /\ sel.cls \subseteq el.cls
    /\ sel.href # "" => (el.tag = "a" /\ Includes(el.href, sel.href))

\* url.split("/").slice(0, 3).join("/"): scheme and host
BaseUrl(url) ==
    LET paths == {i \in 3..Len(url) : StartsWithSlash(<<url[i]>>)}
    IN  IF paths = {} THEN url
        ELSE SubSeq(url, 1, (CHOOSE i \in paths : \A j \in paths : i <= j) - 1)

\* the matches of /https?:\/\/[^\s"'<>]+\.(mp4|mkv|m3u8)[^\s"'<>]*/gi in the
\* document: the absolute hrefs with a media suffix, then the bare URLs
DirectUrls(doc) ==
    LET hrefs == [i \in 1..Len(doc.els) |-> doc.els[i].href]
    IN  SelectSeq(hrefs, LAMBDA h : StartsWithHttp(ToLowerCase(h)) /\ HasMediaExt(h))
        \o doc.raw

HubSelectors ==
    << Sel({"btn-success", "btn-lg"}, ""), Sel({"btn-success"}, ""),
       Sel({"btn-danger"}, ""), Sel({"btn-primary"}, ""), Sel({"btn-secondary"}, ""),
       Sel({}, "pixeldrain"), Sel({}, "workers.dev"), Sel({}, "hubcdn"),
       Sel({}, "cloudflarestorage"), Sel({}, "r2.dev"),
       Sel({}, ".mp4"), Sel({}, ".mkv"), Sel({}, ".m3u8") >>

\* the candidate hubcloudExtractor pushes for one href, <<>> when none
HubClassifyEmbedHosts(href) ==
    IF Includes(href, "streamtape")
    THEN << StreamLink("Streamtape", href, "mp4") >>
    ELSE <<>>

HubClassify(href) ==
    IF Includes(href, "workers.dev")
       \/ (Includes(href, ".dev") /\ ~ Includes(href, "/?id="))
    THEN << StreamLink("CfWorker", href, "mkv") >>
    ELSE IF Includes(href, "pixeldrain")
    THEN LET token == LastSegment(href)
         IN  << StreamLink("Pixeldrain",
                    IF token # <<>> /\ ~ Includes(href, "/api/file/")
                    THEN PixeldrainDirect(token[1]) ELSE href,
                    "mkv") >>
    ELSE IF Includes(href, "cloudflarestorage") \/ Includes(href, "r2.dev")
            \/ Includes(href, "r2.cloudflarestorage")
    THEN << StreamLink("CfStorage", href, "mkv") >>
    ELSE IF Includes(href, "hubcdn") /\ ~ Includes(href, "/?id=")
    THEN << StreamLink("HubCdn", href, "mkv") >>
    ELSE IF HasMediaExt(href)
    THEN << StreamLink("Direct", href, StreamType(href)) >>
    ELSE <<>>

\* $target(sel).each(...) over the elements from index i on;
\* st = [streams, processed]
RECURSIVE HubEach(_, _, _, _)
HubEach(els, i, sel, st) ==
    IF i > Len(els) THEN st
    ELSE LET href == els[i].href
         IN  IF ~ Matches(sel, els[i]) \/ href = <<>> \/ href = <<"#">>
                \/ href = <<"javascript:void(0)">> \/ href \in st.processed
             THEN HubEach(els, i + 1, sel, st)
             ELSE HubEach(els, i + 1, sel,
                    [streams |-> st.streams \o HubClassify(href),
                     processed |-> st.processed \cup {href}])

\* for (const sel of selectors) ...
RECURSIVE HubSelectorLoop(_, _, _)
HubSelectorLoop(els, k, st) ==
    IF k > Len(HubSelectors) THEN st
    ELSE HubSelectorLoop(els, k + 1, HubEach(els, 1, HubSelectors[k], st))

\* for (const u of directUrls) ...; skip is the set of words that exclude a URL
RECURSIVE DirectLoop(_, _, _, _)
DirectLoop(urls, i, skip, st) ==
    IF i > Len(urls) THEN st
    ELSE IF urls[i] \in st.processed \/ \E w \in skip : Includes(urls[i], w)
    THEN DirectLoop(urls, i + 1, skip, st)
    ELSE DirectLoop(urls, i + 1, skip,
            [streams |-> st.streams \o
                            << StreamLink("Direct", urls[i], StreamType(urls[i])) >>,
             processed |-> st.processed \cup {urls[i]}])

\* the document an aggregator scans: the redirect target when the page has
\* a redirect and the target was fetched, the page itself otherwise
Scanned(net) ==
    IF net.html.redirect /\ net.newHtml # Null THEN net.newHtml ELSE net.html

\* hubcloudExtractor; net = [html, newHtml]
HubcloudExtractor(url, net) ==
    IF net.html = Null THEN <<>>
    ELSE LET doc == Scanned(net)
             st1 == HubSelectorLoop(doc.els, 1, [streams |-> <<>>, processed |-> {}])
         IN  DirectLoop(DirectUrls(doc), 1, {"example", "sample"}, st1).streams

GdflixSelectors ==
    << Sel({"btn-outline-success"}, ""), Sel({"btn-success"}, ""),
       Sel({"btn-danger"}, ""), Sel({"btn-primary"}, ""),
       Sel({}, "cloudflarestorage"), Sel({}, "r2.dev"), Sel({}, "pixeldrain"),
       Sel({}, "workers.dev"), Sel({}, "streamtape"), Sel({}, "dood"),
       Sel({}, "filemoon"), Sel({}, "mixdrop") >>

\* the candidate gdflixExtractor pushes for one href of its selector scan
GdflixClassify(href, text, baseUrl) ==
    IF Includes(href, "cloudflarestorage") \/ Includes(href, "r2.dev")
    THEN << StreamLink("R2Storage", href, "mkv") >>
    ELSE IF Includes(href, "pixeldrain")
    THEN LET token == LastSegment(href)
         IN  << StreamLink("Pixeldrain",
                    IF token # <<>> THEN PixeldrainDirect(token[1]) ELSE href,
                    "mkv") >>
    ELSE IF Includes(href, "workers.dev")
    THEN << StreamLink("CfWorker", href, "mkv") >>
    ELSE IF Includes(ToLowerCase(text), "fast") \/ Includes(ToLowerCase(text), "gdrive")
    THEN << StreamLink("FastDL",
                IF StartsWithHttp(href) THEN href ELSE baseUrl \o href, "mkv") >>
    ELSE <<>>

RECURSIVE GdflixEach(_, _, _, _, _)
GdflixEach(els, i, sel, baseUrl, st) ==
    IF i > Len(els) THEN st
    ELSE LET href == els[i].href
         IN  IF ~ Matches(sel, els[i]) \/ href = <<>> \/ href = <<"#">>
                \/ href \in st.processed
             THEN GdflixEach(els, i + 1, sel, baseUrl, st)
             ELSE GdflixEach(els, i + 1, sel, baseUrl,
                    [streams |-> st.streams \o GdflixClassify(href, els[i].text, baseUrl),
                     processed |-> st.processed \cup {href}])

RECURSIVE GdflixSelectorLoop(_, _, _, _)
GdflixSelectorLoop(els, k, baseUrl, st) ==
    IF k > Len(GdflixSelectors) THEN st
    ELSE GdflixSelectorLoop(els, k + 1, baseUrl,
            GdflixEach(els, 1, GdflixSelectors[k], baseUrl, st))

\* $(selector).attr("href"): the href of the first anchor whose field
\* (its text for a:contains(..), its href for a[href*=..]) holds m
FirstHref(els, field, m) ==
    LET hits == {i \in 1..Len(els) : els[i].tag = "a" /\ Includes(els[i][field], m)}
    IN  IF hits = {} THEN <<>>
        ELSE els[CHOOSE i \in hits : \A j \in hits : i <= j].href

\* $('a:contains("V-Cloud")').attr("href") || ... || $('a[href*="vcloud"]').attr("href")
HubLink(els) ==
    LET byText(t) == FirstHref(els, "text", t)
        byHref(m) == FirstHref(els, "href", m)
    IN  IF byText("V-Cloud") # <<>> THEN byText("V-Cloud")
        ELSE IF byText("HubCloud") # <<>> THEN byText("HubCloud")
        ELSE IF byText("Hub-Cloud") # <<>> THEN byText("Hub-Cloud")
        ELSE IF byHref("hubcloud") # <<>> THEN byHref("hubcloud")
        ELSE byHref("vcloud")

\* $("a[href^='http']").each(...): the embed hosts, by substring of the href
RECURSIVE GdflixEmbeds(_, _, _)
GdflixEmbeds(els, i, st) ==
    IF i > Len(els) THEN st
    ELSE LET href == els[i].href
             server == IF Includes(href, "streamtape") THEN "Streamtape"
                       ELSE IF Includes(href, "dood") THEN "Doodstream"
                       ELSE IF Includes(href, "filemoon") THEN "Filemoon"
                       ELSE IF Includes(href, "mixdrop") THEN "Mixdrop"
                       ELSE ""
         IN  IF els[i].tag # "a" \/ ~ StartsWithHttp(href)
                \/ href \in st.processed \/ server = ""
             THEN GdflixEmbeds(els, i + 1, st)
             ELSE GdflixEmbeds(els, i + 1,
                    [streams |-> st.streams \o
                        << StreamLink(server, href,
                              IF server = "Filemoon" THEN "m3u8" ELSE "mp4") >>,
                     processed |-> st.processed \cup {href}])

\* gdflixExtractor in three parts: the candidates of its selector scan, the
\* hubcloudExtractor call it makes (called, its URL, its candidates), and the
\* candidates it adds afterwards; net = [html, newHtml, hub]
GdflixParts(url, net) ==
    IF net.html = Null
    THEN [before |-> <<>>, hubCalled |-> FALSE, hubLink |-> <<>>,
          hubStreams |-> <<>>, hubBody |-> FALSE, after |-> <<>>]
    ELSE LET doc == Scanned(net)
             st1 == GdflixSelectorLoop(doc.els, 1, BaseUrl(url),
                        [streams |-> <<>>, processed |-> {}])
             hubLink == HubLink(doc.els)
             called == hubLink # <<>> /\ hubLink \notin st1.processed
             st2 == GdflixEmbeds(doc.els, 1, [streams |-> <<>>, processed |-> st1.processed])
             st3 == DirectLoop(DirectUrls(doc), 1, {"example"},
                        [streams |-> st2.streams, processed |-> st2.processed])
         IN  [before |-> st1.streams,
              hubCalled |-> called,
              hubLink |-> hubLink,
              hubStreams |-> IF called THEN HubcloudExtractor(hubLink, net.hub) ELSE <<>>,
              hubBody |-> called /\ net.hub.html # Null,
              after |-> st3.streams]

GdflixExtractor(url, net) ==
    LET parts == GdflixParts(url, net)
    IN  parts.before \o parts.hubStreams \o parts.after

(***************************************************************************)
(* resolveLink: the position and the locals of a call.  A call runs from   *)
(* one await to the next in one step.  log is its history: one record per  *)
(* extractor invocation, with the invocation it got its URL from (parent,  *)
(* 0 for the URL the call was given) and, once it returned, its output.    *)
(* fetch is the state of the fetch the awaited extractor starts with:      *)
(* "sent" from the call of fetch() until the response arrives, "body"      *)
(* while the body of the response is read, "aborted" once the timer of     *)
(* fetchHtml has called controller.abort(), "none" when nothing is         *)
(* awaited.                                                                *)
(***************************************************************************)
Calls == {1, 2}

IdleCall ==
    [pc |-> "idle", url |-> <<>>, ex |-> "", streams |-> <<>>, origin |-> <<>>,
     deepResolved |-> <<>>, pushed |-> <<>>, i |-> 0, result |-> <<>>,
     hit |-> FALSE, wrote |-> FALSE, log |-> <<>>, fetch |-> "none"]

\* the if / else-if chain on lowerUrl; "none" is the final else
ClassifyCaseSensitive(url) ==
    IF Includes(url, "pixeldrain") THEN "pixeldrain"
    ELSE IF Includes(url, "streamtape") THEN "streamtape"
    ELSE IF Includes(url, "dood") THEN "dood"
    ELSE IF Includes(url, "filemoon") THEN "filemoon"
    ELSE IF Includes(url, "mixdrop") THEN "mixdrop"
    ELSE IF Includes(url, "gdflix") \/ Includes(url, "nexdrive") THEN "gdflix"
    ELSE IF Includes(url, "hubcloud") \/ Includes(url, "vcloud") THEN "hubcloud"
    ELSE "none"

Classify(url) ==
    LET lowerUrl == ToLowerCase(url)
    IN  IF Includes(lowerUrl, "pixeldrain") THEN "pixeldrain"
        ELSE IF Includes(lowerUrl, "streamtape") THEN "streamtape"
        ELSE IF Includes(lowerUrl, "dood") THEN "dood"
        ELSE IF Includes(lowerUrl, "filemoon") THEN "filemoon"
        ELSE IF Includes(lowerUrl, "mixdrop") THEN "mixdrop"
        ELSE IF Includes(lowerUrl, "gdflix") \/ Includes(lowerUrl, "nexdrive") THEN "gdflix"
        ELSE IF Includes(lowerUrl, "hubcloud") \/ Includes(lowerUrl, "vcloud") THEN "hubcloud"
        ELSE "none"

\* the extractor the deep pass awaits for a candidate, "" when it pushes
\* the candidate as it is
DeepExtractorNoMarker(stream) ==
    CASE stream.server = "Streamtape" -> "streamtape"
      [] stream.server = "Doodstream" -> "dood"
      [] stream.server = "Filemoon"   -> "filemoon"
      [] stream.server = "Mixdrop"    -> "mixdrop"
      [] OTHER                        -> ""

DeepExtractor(stream) ==
    IF stream.server = "Streamtape" /\ ~ Includes(stream.link, "get_video")
    THEN "streamtape"
    ELSE IF stream.server = "Doodstream" /\ ~ Includes(stream.link, "pass_md5")
    THEN "dood"
    ELSE IF stream.server = "Filemoon" /\ ~ Includes(stream.link, ".m3u8")
    THEN "filemoon"
    ELSE IF stream.server = "Mixdrop" /\ ~ Includes(stream.link, "delivery")
    THEN "mixdrop"
    ELSE ""

\* the invocation of extractor ex on url with the network answering net, at
\* clock reading t
Run(ex, url, net, t) ==
    CASE ex = "pixeldrain" -> PixeldrainExtractor(url, net)
      [] ex = "streamtape" -> StreamtapeExtractor(url, net)
      [] ex = "dood"       ->
            DoodstreamExtractor(url, [html |-> net.html, passRes |-> net.passRes,
                                      random |-> net.random, now |-> t])
      [] ex = "filemoon"   -> FilemoonExtractor(url, net)
      [] ex = "mixdrop"    -> MixdropExtractor(url, net)
      [] ex = "gdflix"     -> GdflixExtractor(url, net)
      [] ex = "hubcloud"   -> HubcloudExtractor(url, net)

\* body: whether the first fetch of the invocation yielded a body
Invocation(ex, url, phase, parent, cand) ==
    [ex |-> ex, url |-> url, phase |-> phase, parent |-> parent, cand |-> cand,
     done |-> FALSE, out |-> <<>>, body |-> FALSE]

\* const html = await fetchHtml(url); if (!html) return streams; and
\* const info = await fetchJson(...) of pixeldrainExtractor
GotBody(ex, net) ==
    IF ex = "pixeldrain" THEN net.info # Null ELSE net.html # Null

\* the loop of the deep pass from candidate rec.i up to the next await:
\* candidates that need no extractor are pushed as they are
RECURSIVE DeepSkip(_)
DeepSkip(rec) ==
    IF rec.i > Len(rec.streams) THEN rec
    ELSE IF DeepExtractor(rec.streams[rec.i]) # "" THEN rec
    ELSE DeepSkip([rec EXCEPT !.deepResolved = Append(@, rec.streams[rec.i]),
                              !.pushed = Append(@, <<rec.streams[rec.i]>>),
                              !.i = @ + 1])

\* if (streams.length === 0) streams = await gdflixExtractor(url) in the
\* final else branch
NeedsFallbackAlways(url, out) == Classify(url) = "none"

NeedsFallback(url, out) == Classify(url) = "none" /\ Len(out) = 0

\* if (resolved.length > 0) deepResolved.push(...resolved)
\* else deepResolved.push(stream)
DeepPushKeepsBoth(stream, resolved) == <<stream>> \o resolved

DeepPush(stream, resolved) ==
    IF Len(resolved) > 0 THEN resolved ELSE <<stream>>

\* finalStreams

FinalStreams(deepResolved, streams) ==
    IF Len(deepResolved) > 0 THEN deepResolved ELSE streams

\* what resolveLink does with the candidates of the deep pass so far: it
\* awaits the extractor of the next candidate that needs one, or it ends
\* the loop and returns finalStreams
Continue(rec) ==
    LET r == DeepSkip(rec)
    IN  IF r.i <= Len(r.streams)
        THEN [r EXCEPT !.pc = "deep",
                       !.fetch = "sent",
                       !.ex = DeepExtractor(r.streams[r.i]),
                       !.log = Append(@, Invocation(DeepExtractor(r.streams[r.i]),
                                            r.streams[r.i].link, "deep",
                                            r.origin[r.i], r.i))]
        ELSE [r EXCEPT !.pc = "done",
                       !.fetch = "none",
                       !.ex = "",
                       !.result = FinalStreams(r.deepResolved, r.streams),
                       !.wrote = Len(FinalStreams(r.deepResolved, r.streams)) > 0]

\* the call's step ends in rec: if (finalStreams.length > 0) setCache(...)
CommitAlsoEmpty(c, rec) ==
    /\ call' = [call EXCEPT ![c] = rec]
    /\ IF rec.pc = "done"
       THEN DoPut(rec.url, rec.result)
       ELSE UNCHANGED cacheVars
    /\ UNCHANGED now

Commit(c, rec) ==
    /\ call' = [call EXCEPT ![c] = rec]
    /\ IF rec.pc = "done" /\ Len(rec.result) > 0
       THEN DoPut(rec.url, rec.result)
       ELSE UNCHANGED cacheVars
    /\ UNCHANGED now

(***************************************************************************)
(* The inputs of Spec: the URLs given to resolveLink and the answers of    *)
(* the network.                                                            *)
(***************************************************************************)
Url(host, tail) == <<"https:", "//">> \o host \o <<".com">> \o tail

\* one URL per host marker, markers in upper case, several markers in one
\* URL, no marker, and a file host URL without a file identifier
Urls ==
    { Url(<<h>>, <<"/u/", "abc123">>) :
        h \in {"pixeldrain", "streamtape", "dood", "filemoon", "mixdrop", "gdflix",
               "nexdrive", "hubcloud", "vcloud", "DOOD", "PixelDrain", "HubCloud",
               "example"} }
    \cup { Url(<<a, b>>, <<"/u/", "abc123">>) :
            <<a, b>> \in { <<"dood", "pixeldrain">>, <<"hubcloud", "gdflix">>,
                           <<"mixdrop", "streamtape">>, <<"vcloud", "nexdrive">>,
                           <<"filemoon", "DOOD">>, <<"example", "mixdrop">> } }
    \cup { Url(<<"pixeldrain">>, <<"/">>), <<"https:", "//", "dood", ".wf", "/e/", "abc123">> }

NoNet == [html |-> Null]

PixeldrainNets ==
    { [info |-> Null],
      [info |-> [video |-> TRUE, malformed |-> FALSE]],
      [info |-> [video |-> FALSE, malformed |-> FALSE]],
      [info |-> [video |-> FALSE, malformed |-> TRUE]] }

StreamtapeNets ==
    { NoNet,
      [html |-> [robotlink |-> <<>>, token |-> <<>>, norobot |-> <<>>]],
      [html |-> [robotlink |-> <<"//", "streamtape", ".com", "/", "get_video", "?id=abc123">>,
                 token |-> <<"tok">>, norobot |-> <<>>]],
      [html |-> [robotlink |-> <<"//", "streamtape", ".com", "/e/", "xyz789">>,
                 token |-> <<>>, norobot |-> <<>>]],
      [html |-> [robotlink |-> <<>>, token |-> <<"tok">>,
                 norobot |-> <<"//", "streamtape", ".com", "/", "get_video", "?id=xyz789">>]] }

RandomParts == {"zUEJeL3mUNa", "zUEJeL3mUNb"}

DoodNets ==
    { [html |-> Null, passRes |-> Null, random |-> "zUEJeL3mUNa"],
      [html |-> [pass |-> <<>>], passRes |-> Null, random |-> "zUEJeL3mUNa"] }
    \cup { [html |-> [pass |-> <<"abc123", "/", "xyz789">>], passRes |-> body, random |-> r] :
            body \in { Null, [text |-> <<>>],
                       [text |-> <<"https:", "//", "cdn", ".com", "/", "abc123", "/">>],
                       [text |-> <<"https:", "//", "cdn", ".com", "/", "pass_md5", "/">>] },
            r \in RandomParts }

FilemoonNets ==
    { NoNet,
      [html |-> [fileM3u8 |-> <<>>, sourcesFile |-> <<>>, rawM3u8 |-> <<>>]],
      [html |-> [fileM3u8 |-> <<"https:", "//", "cdn", ".com", "/", "master", ".m3u8">>,
                 sourcesFile |-> <<>>, rawM3u8 |-> <<>>]],
      [html |-> [fileM3u8 |-> <<"/", "master", ".m3u8">>,
                 sourcesFile |-> <<>>, rawM3u8 |-> <<>>]],
      [html |-> [fileM3u8 |-> <<>>,
                 sourcesFile |-> <<"https:", "//", "cdn", ".com", "/", "video", ".mp4">>,
                 rawM3u8 |-> <<>>]],
      [html |-> [fileM3u8 |-> <<>>, sourcesFile |-> <<>>,
                 rawM3u8 |-> <<"https:", "//", "cdn", ".com", "/", "index", ".m3u8">>]] }

MixdropNets ==
    { NoNet,
      [html |-> [wurl |-> <<>>]],
      [html |-> [wurl |-> <<"//", "cdn", ".com", "/", "delivery", "/", "abc123", ".mp4">>]],
      [html |-> [wurl |-> <<"//", "cdn", ".com", "/", "abc123", ".mp4">>]] }

Doc(redirect, els, raw) == [redirect |-> redirect, els |-> els, raw |-> raw]

PixeldrainButton ==
    El("a", {"btn-success", "btn-lg"}, Url(<<"pixeldrain">>, <<"/u/", "abc123">>), <<"Download">>)

HubDocs ==
    { Doc(FALSE, <<>>, <<>>),
      Doc(FALSE, << PixeldrainButton >>, <<>>),
      Doc(FALSE, << PixeldrainButton,
                    El("a", {}, Url(<<"pixeldrain">>, <<"/u/", "abc123", "?dl=1">>), <<"Mirror">>) >>,
          <<>>),
      Doc(FALSE, << El("a", {"btn-danger"}, <<"/file/", "abc123", ".mkv">>, <<"Download">>),
                    El("button", {"btn-success"}, <<>>, <<"Copy">>) >>,
          << <<"https:", "//", "cdn", ".com", "/", "abc123", ".mp4">> >>),
      Doc(FALSE, << El("a", {"btn-primary"}, <<"https:", "//", "dl", "workers.dev", "/", "abc123">>, <<"Download">>),
                    El("a", {"btn-success"}, Url(<<"streamtape">>, <<"/e/", "abc123">>), <<"Watch">>),
                    El("a", {"btn-secondary"}, <<"#">>, <<"More">>) >>,
          <<>>) }

HubNets ==
    { [html |-> Null, newHtml |-> Null] }
    \cup { [html |-> d, newHtml |-> Null] : d \in HubDocs }
    \cup { [html |-> Doc(TRUE, <<>>, <<>>), newHtml |-> n] :
            n \in {Null, Doc(FALSE, << PixeldrainButton >>, <<>>)} }

HubCloudAnchor ==
    El("a", {}, Url(<<"hubcloud">>, <<"/u/", "xyz789">>), <<"HubCloud">>)

GdflixDocs ==
    { Doc(FALSE, <<>>, <<>>),
      Doc(FALSE, << El("a", {"btn-success"}, <<"https:", "//", "pub", "r2.dev", "/", "abc123", ".mkv">>, <<"Download">>) >>,
          <<>>),
      Doc(FALSE, << El("a", {}, Url(<<"streamtape">>, <<"/e/", "abc123">>), <<"Watch">>),
                    El("a", {"btn-danger"}, Url(<<"pixeldrain">>, <<"/u/", "xyz789">>), <<"Download">>),
                    El("a", {}, Url(<<"mixdrop">>, <<"/e/", "abc123">>), <<"Watch">>) >>,
          <<>>),
      Doc(FALSE, << HubCloudAnchor >>, <<>>),
      Doc(FALSE, << El("a", {"btn-primary"}, <<"/file/", "abc123">>, <<"FAST", "Download">>),
                    HubCloudAnchor,
                    PixeldrainButton >>,
          <<>>),
      Doc(FALSE, << El("a", {"btn-primary"}, Url(<<"hubcloud">>, <<"/u/", "xyz789">>), <<"HubCloud">>) >>,
          << <<"https:", "//", "cdn", ".com", "/", "example", ".mp4">> >>) }

\* the answers to the fetches of gdflixExtractor, and of the
\* hubcloudExtractor call it makes when the scanned document leads to one
GdflixNets ==
    { [html |-> Null, newHtml |-> Null, hub |-> NoNet] }
    \cup UNION { { [html |-> d, newHtml |-> Null, hub |-> h] :
                    h \in IF GdflixParts(<<>>, [html |-> d, newHtml |-> Null,
                                               hub |-> NoNet]).hubCalled
                          THEN HubNets ELSE {NoNet} } :
                 d \in GdflixDocs }

Nets(ex) ==
    CASE ex = "pixeldrain" -> PixeldrainNets
      [] ex = "streamtape" -> StreamtapeNets
      [] ex = "dood"       -> DoodNets
      [] ex = "filemoon"   -> FilemoonNets
      [] ex = "mixdrop"    -> MixdropNets
      [] ex = "gdflix"     -> GdflixNets
      [] ex = "hubcloud"   -> HubNets
      [] OTHER             -> {}

(***************************************************************************)
(* The steps of a resolveLink call                                         *)
(***************************************************************************)
\* an awaited extractor returned out: the last invocation of the log is done
Returned1(log, out, body) ==
    [log EXCEPT ![Len(log)] = [@ EXCEPT !.done = TRUE, !.out = out, !.body = body]]

\* the hubcloudExtractor call gdflixExtractor made, as an invocation that
\* got its URL from invocation parent
Nested(parts, parent) ==
    IF parts.hubCalled
    THEN << [Invocation("hubcloud", parts.hubLink, "nested", parent, 0)
                EXCEPT !.done = TRUE, !.out = parts.hubStreams, !.body = parts.hubBody] >>
    ELSE <<>>

\* which invocation of the log each candidate of gdflixExtractor came from
GdflixOrigin(parts, own) ==
    [n \in 1..(Len(parts.before) + Len(parts.hubStreams) + Len(parts.after)) |->
        IF n > Len(parts.before) /\ n <= Len(parts.before) + Len(parts.hubStreams)
        THEN own + 1 ELSE own]

\* the call has the candidates of step 2: the deep pass starts
WithStreams(rec, ex, net, out) ==
    LET parts == GdflixParts(rec.url, net)
        own   == Len(rec.log)
    IN  [rec EXCEPT
            !.streams = out,
            !.origin  = IF ex = "gdflix" THEN GdflixOrigin(parts, own)
                        ELSE [n \in 1..Len(out) |-> own],
            !.log     = IF ex = "gdflix"
                        THEN Returned1(@, out, GotBody(ex, net)) \o Nested(parts, own)
                        ELSE Returned1(@, out, GotBody(ex, net)),
            !.i       = 1]

\* const cached = getCached(...); if (cached) return cached.data; otherwise
\* the step runs up to the await of the first extractor
Start(c, url) ==
    /\ call[c].pc = "idle"
    /\ LET cached == GetCached(cacheStreams, url, CACHE_TTL.streams, now)
           ex == IF Classify(url) = "none" THEN "hubcloud" ELSE Classify(url)
       IN  call' = [call EXCEPT ![c] =
                IF cached # Null
                THEN [IdleCall EXCEPT !.pc = "done", !.url = url, !.hit = TRUE,
                                      !.result = cached.data]
                ELSE [IdleCall EXCEPT !.pc = "step2", !.url = url, !.ex = ex,
                                      !.fetch = "sent",
                                      !.log = << Invocation(ex, url, "step2", 0, 0) >>]]
    /\ UNCHANGED <<cacheVars, now>>

\* an aborted fetch rejects, the catch block of fetchHtml returns null: the
\* extractor gets no body
FetchYields(rec, net) == rec.fetch = "aborted" => ~ GotBody(rec.ex, net)

\* streams = await <extractor>(url), then the code up to the next await
Step2Return(c, net) ==
    /\ call[c].pc = "step2"
    /\ FetchYields(call[c], net)
    /\ LET rec == call[c]
           out == Run(rec.ex, rec.url, net, now)
       IN  IF NeedsFallback(rec.url, out)
           THEN Commit(c, [rec EXCEPT
                            !.pc = "fallback", !.ex = "gdflix", !.fetch = "sent",
                            !.log = Append(Returned1(@, out, GotBody(rec.ex, net)),
                                        Invocation("gdflix", rec.url, "fallback", 0, 0))])
           ELSE Commit(c, Continue(WithStreams(rec, rec.ex, net, out)))

\* streams = await gdflixExtractor(url) of the final else branch
FallbackReturn(c, net) ==
    /\ call[c].pc = "fallback"
    /\ FetchYields(call[c], net)
    /\ LET rec == call[c]
           out == Run("gdflix", rec.url, net, now)
       IN  Commit(c, Continue(WithStreams(rec, "gdflix", net, out)))

\* const resolved = await <extractor>(stream.link) in the deep pass
DeepReturn(c, net) ==
    /\ call[c].pc = "deep"
    /\ FetchYields(call[c], net)
    /\ LET rec == call[c]
           stream == rec.streams[rec.i]
           resolved == Run(rec.ex, stream.link, net, now)
           push == DeepPush(stream, resolved)
       IN  Commit(c, Continue([rec EXCEPT
                                !.deepResolved = @ \o push,
                                !.pushed = Append(@, push),
                                !.log = Returned1(@, resolved, GotBody(rec.ex, net)),
                                !.i = @ + 1]))

(***************************************************************************)
(* SpecCache: one cache Map, its callers and the clock.                    *)
(* The Map is generic in its key; here the keys are numbered.  Besides the *)
(* empty Map the behaviours start from a full one: the Map after           *)
(* CACHE_LIMIT calls of setCache, key k stored at millisecond k.           *)
(***************************************************************************)
Now0 == CACHE_LIMIT

\* the data is generic too (T): two values tell a put from the one before it
CacheValues == {"v1", "v2"}

PrefillData == "v1"

Prefill(n) ==
    [k \in 1..n |-> [key |-> k, data |-> PrefillData, timestamp |-> k]]

PrefillSizes == {0, CACHE_LIMIT}

\* the keys the callers of SpecCache use: the oldest and two new ones
PutKeys == {1, CACHE_LIMIT + 1, CACHE_LIMIT + 2}

\* the clock is read one millisecond before and exactly at Now0 and
\* Now0 + TTL, so that an entry is read at the ages TTL - 1 and TTL
Instants ==
    {Now0 + e * CACHE_TTL.streams + j : e \in {0, 1}, j \in {-1, 0}}

InitCache ==
    /\ \E n \in PrefillSizes :
        /\ cacheStreams = Prefill(n)
        /\ lastPut = [k \in (1..n) \cap PutKeys |->
                        [data |-> PrefillData, timestamp |-> k]]
    /\ now = Now0
    /\ lastOp = [op |-> "none"]
    /\ nputs = 0
    /\ call = [c \in Calls |-> IdleCall]

Put(key, data) ==
    /\ nputs < MaxPuts
    /\ DoPut(key, data)
    /\ UNCHANGED <<now, call>>

\* a getCached that deletes the entry it finds stale
GetDeletingStale(key) ==
    LET result == GetCached(cacheStreams, key, CACHE_TTL.streams, now)
    IN  /\ lastOp' = [op |-> "get", key |-> key, result |-> result]
        /\ cacheStreams' = IF result = Null THEN MapDelete(cacheStreams, key)
                           ELSE cacheStreams
        /\ UNCHANGED <<now, lastPut, nputs, call>>

Get(key) ==
    /\ lastOp' = [op |-> "get", key |-> key,
                  result |-> GetCached(cacheStreams, key, CACHE_TTL.streams, now)]
    /\ UNCHANGED <<cacheStreams, now, lastPut, nputs, call>>

Tick ==
    /\ \E t \in Instants : t > now /\ now' = t
    /\ UNCHANGED <<cacheStreams, lastPut, lastOp, nputs, call>>

CachePut == \E key \in PutKeys, data \in CacheValues : Put(key, data)

CacheGet == \E key \in PutKeys : Get(key)

NextCache == CachePut \/ CacheGet \/ Tick

SpecCache == InitCache /\ [][NextCache]_vars

(***************************************************************************)
(* Spec: one resolveLink call on cache.streams while the clock runs.  The  *)
(* cache is empty, or holds what an earlier call stored at Now0 for one of *)
(* two URLs.                                                               *)
(***************************************************************************)
StoredUrls == { Url(<<"pixeldrain">>, <<"/u/", "abc123">>), Url(<<"example">>, <<"/u/", "abc123">>) }

StoredData(url) ==
    IF Classify(url) = "pixeldrain"
    THEN PixeldrainExtractor(url, [info |-> Null])
    ELSE HubcloudExtractor(url, [html |-> Doc(FALSE, << PixeldrainButton >>, <<>>),
                                 newHtml |-> Null])

Init ==
    /\ \/ cacheStreams = <<>> /\ lastPut = <<>>
       \/ \E u \in StoredUrls :
            /\ cacheStreams = << [key |-> u, data |-> StoredData(u), timestamp |-> Now0] >>
            /\ lastPut = [k \in {u} |-> [data |-> StoredData(u), timestamp |-> Now0]]
    /\ now = Now0
    /\ lastOp = [op |-> "none"]
    /\ nputs = 0
    /\ call = [c \in Calls |-> IdleCall]

SeqCalls == {1}

ResolveStart == \E c \in SeqCalls, url \in Urls : Start(c, url)

ResolveStep2 == \E c \in SeqCalls : \E net \in Nets(call[c].ex) : Step2Return(c, net)

ResolveFallback == \E c \in SeqCalls : \E net \in GdflixNets : FallbackReturn(c, net)

ResolveDeep == \E c \in SeqCalls : \E net \in Nets(call[c].ex) : DeepReturn(c, net)

Next == ResolveStart \/ ResolveStep2 \/ ResolveFallback \/ ResolveDeep \/ Tick

Spec == Init /\ [][Next]_vars

(***************************************************************************)
(* Claims about the cache store (SpecCache)                                *)
(***************************************************************************)
Range(seq) == {seq[i] : i \in 1..Len(seq)}

\* C1: after every put the store holds at most 1000 entries.
C1_SizeAtMostLimit == Len(cacheStreams) <= CACHE_LIMIT

\* C2: a put removes at most one entry, and a removed entry has the
\* smallest stored timestamp among all entries the store held at that moment.
C2_EvictsOnlyTheOldest ==
    lastOp.op = "put" =>
        /\ Len(lastOp.evicted) <= 1
        /\ Len(cacheStreams) >= lastOp.sizeBefore - 1
        /\ \A n \in 1..Len(lastOp.evicted) :
              /\ lastOp.evicted[n].timestamp = lastOp.oldestBefore
              /\ \/ lastOp.evicted[n].key = lastOp.key
                 \/ ~ MapHas(cacheStreams, lastOp.evicted[n].key)

C2_Witness ==
    /\ lastOp.op = "put"
    /\ Len(lastOp.evicted) = 1
    /\ lastOp.evicted[1].key = 1
    /\ ~ MapHas(cacheStreams, 1)
    /\ Len(cacheStreams) = CACHE_LIMIT + 1

Age(k) == now - lastPut[k].timestamp

Returned(k) == GetCached(cacheStreams, k, CACHE_TTL.streams, now)

Hit(k) == [data |-> lastPut[k].data, cached |-> TRUE]

\* C3 as stated: get(k) returns the value of the latest put(k) exactly when
\* that put is less than the TTL old, and at an age of TTL or more it
\* returns absent while the entry is still in the store.
C3_FreshIffRecent ==
    \A k \in DOMAIN lastPut :
        /\ (Returned(k) = Hit(k)) <=> (Age(k) < CACHE_TTL.streams)
        /\ Age(k) >= CACHE_TTL.streams =>
                Returned(k) = Null /\ MapHas(cacheStreams, k)

\* C3 amended: the same for every key whose entry no later put has evicted;
\* the entry holds the latest put; an evicted key reads as absent at any age.
C3_FreshIffRecentUnlessEvicted ==
    \A k \in DOMAIN lastPut :
        /\ MapHas(cacheStreams, k) =>
              /\ MapGet(cacheStreams, k) = lastPut[k]
              /\ (Returned(k) = Hit(k)) <=> (Age(k) < CACHE_TTL.streams)
              /\ Age(k) >= CACHE_TTL.streams => Returned(k) = Null
        /\ ~ MapHas(cacheStreams, k) => Returned(k) = Null

\* a get at the age of exactly TTL finds the entry and returns absent
C3_Witness ==
    /\ lastOp.op = "get"
    /\ lastOp.key \in DOMAIN lastPut
    /\ MapHas(cacheStreams, lastOp.key)
    /\ Age(lastOp.key) = CACHE_TTL.streams
    /\ lastOp.result = Null

(***************************************************************************)
(* Claims about resolveLink (Spec)                                         *)
(***************************************************************************)
\* a call that looked up the cache and missed
Missed(c) == call[c].pc # "idle" /\ ~ call[c].hit

\* the entry of key k is in map2 what it was in map1, or it is gone
KeptOrGone(map1, map2, k) ==
    MapGet(map2, k) = MapGet(map1, k) \/ MapGet(map2, k) = Null

\* C4: a call that missed writes the stream cache exactly in the step in
\* which it ends with a non-empty final result, and it writes that result
\* under its url; no other step of it changes the cache, so a call that
\* ends with an empty result leaves the cache as it was, and no entry of
\* another key is set.
C4_CachesExactlyNonEmptyResults ==
    [][ \A c \in Calls :
          call'[c] # call[c] =>
            IF call'[c].pc = "done" /\ ~ call'[c].hit /\ Len(call'[c].result) > 0
            THEN /\ MapGet(cacheStreams', call'[c].url)
                      = [data |-> call'[c].result, timestamp |-> now]
                 /\ nputs' = nputs + 1
                 /\ \A k \in (MapKeys(cacheStreams) \cup MapKeys(cacheStreams'))
                                \ {call'[c].url} :
                        KeptOrGone(cacheStreams, cacheStreams', k)
            ELSE cacheStreams' = cacheStreams /\ nputs' = nputs ]_vars

\* a call for a URL with a stale entry ended empty and the entry is still
\* the one stored before the call
C4_Witness ==
    \E c \in Calls :
        /\ call[c].pc = "done" /\ ~ call[c].hit
        /\ Len(call[c].log) = 2
        /\ call[c].result = <<>>
        /\ MapHas(cacheStreams, call[c].url)
        /\ MapGet(cacheStreams, call[c].url).timestamp = Now0
        /\ nputs = 0

\* C5: a call that starts while the cache holds a fresh entry for its url
\* returns the stored result in that step, having invoked no extractor (so
\* no fetch) and written nothing to the cache.
C5_FreshHitShortCircuits ==
    [][ \A c \in Calls :
          (call[c].pc = "idle" /\ call'[c].pc # "idle") =>
            LET u == call'[c].url
            IN  (MapHas(cacheStreams, u)
                 /\ now - MapGet(cacheStreams, u).timestamp < CACHE_TTL.streams) =>
                    /\ call'[c].pc = "done"
                    /\ call'[c].result = MapGet(cacheStreams, u).data
                    /\ call'[c].log = <<>>
                    /\ cacheStreams' = cacheStreams
                    /\ nputs' = nputs ]_vars

\* a call returned the stored candidates one millisecond before they expire
C5_Witness ==
    \E c \in Calls :
        /\ call[c].hit /\ call[c].pc = "done"
        /\ Len(call[c].result) > 0
        /\ call[c].log = <<>>
        /\ now - MapGet(cacheStreams, call[c].url).timestamp = CACHE_TTL.streams - 1

\* the markers in the order of the claim, each with its extractor
MarkerOrder ==
    << <<"pixeldrain", "pixeldrain">>, <<"streamtape", "streamtape">>,
       <<"dood", "dood">>, <<"filemoon", "filemoon">>, <<"mixdrop", "mixdrop">>,
       <<"gdflix", "gdflix">>, <<"nexdrive", "gdflix">>,
       <<"hubcloud", "hubcloud">>, <<"vcloud", "hubcloud">> >>

MarkersIn(url) ==
    {k \in 1..Len(MarkerOrder) :
        \E i \in 1..Len(url) : LowerTok(url[i]) = MarkerOrder[k][1]}

FirstMarkerExtractor(url) ==
    MarkerOrder[CHOOSE k \in MarkersIn(url) : \A j \in MarkersIn(url) : k <= j][2]

\* the invocations the orchestrator makes in step 2
Step2Invocations(log) ==
    {k \in 1..Len(log) : log[k].phase \in {"step2", "fallback"}}

\* C6: on a miss for a URL whose lower-cased text holds a host marker, step 2
\* invokes exactly one extractor, on the URL: that of the first marker, in
\* the fixed order, that the URL holds in any letter case.
C6_FirstMarkerDecides ==
    \A c \in Calls :
        (Missed(c) /\ MarkersIn(call[c].url) # {}) =>
            /\ Step2Invocations(call[c].log) = {1}
            /\ call[c].log[1].ex = FirstMarkerExtractor(call[c].url)
            /\ call[c].log[1].url = call[c].url
            /\ call[c].log[1].phase = "step2"

\* a URL with filemoon and DOOD in it went to the doodstream extractor
C6_Witness ==
    \E c \in Calls :
        /\ Missed(c)
        /\ Includes(call[c].url, "filemoon") /\ Includes(call[c].url, "DOOD")
        /\ call[c].log[1].ex = "dood"
        /\ call[c].log[1].done

\* C7: on a miss for a URL without a host marker, aggregator A is invoked
\* first, on the URL; aggregator B is invoked, on the URL and after A has
\* returned, exactly when A returned no candidate.
C7_FallbackOrder ==
    \A c \in Calls :
        (Missed(c) /\ MarkersIn(call[c].url) = {}) =>
            LET log == call[c].log
                later == Step2Invocations(log) \ {1}
            IN  /\ log[1].ex = "hubcloud" /\ log[1].url = call[c].url
                /\ log[1].phase = "step2"
                /\ (later # {}) <=> (log[1].done /\ log[1].out = <<>>)
                /\ later \subseteq {2}
                /\ \A k \in later :
                      /\ log[k].ex = "gdflix" /\ log[k].url = call[c].url
                      /\ log[k].phase = "fallback"

\* aggregator A returned nothing and aggregator B found a candidate
C7_Witness ==
    \E c \in Calls :
        /\ Missed(c) /\ MarkersIn(call[c].url) = {}
        /\ Len(call[c].log) >= 2
        /\ call[c].log[1].ex = "hubcloud" /\ call[c].log[1].out = <<>>
        /\ call[c].log[2].ex = "gdflix" /\ call[c].log[2].done
        /\ Len(call[c].log[2].out) > 0

\* the embed hosts with the extractor and the terminal marker of each
EmbedHosts ==
    [ Streamtape |-> [ex |-> "streamtape", marker |-> "get_video"],
      Doodstream |-> [ex |-> "dood",       marker |-> "pass_md5"],
      Filemoon   |-> [ex |-> "filemoon",   marker |-> ".m3u8"],
      Mixdrop    |-> [ex |-> "mixdrop",    marker |-> "delivery"] ]

IsEmbed(stream) == stream.server \in DOMAIN EmbedHosts

HasTerminalMarker(stream) ==
    \E i \in 1..Len(stream.link) : stream.link[i] = EmbedHosts[stream.server].marker

DeepInvocations(log, i) ==
    {k \in 1..Len(log) : log[k].phase = "deep" /\ log[k].cand = i}

RECURSIVE Flatten(_)
Flatten(seqs) ==
    IF Len(seqs) = 0 THEN <<>> ELSE Head(seqs) \o Flatten(Tail(seqs))

\* the candidates the deep pass is through with
Passed(c) ==
    IF call[c].pc = "done" /\ ~ call[c].hit THEN 1..Len(call[c].streams)
    ELSE IF call[c].pc = "deep" THEN 1..(call[c].i - 1)
    ELSE {}

\* C8: the deep pass takes the step-2 candidates in order; for an embed-host
\* candidate whose link lacks the terminal marker it invokes that host's
\* extractor on the link and puts all candidates of the invocation in the
\* candidate's place, or the candidate itself when there are none; any
\* candidate with another server stays as it is; the output is these pieces
\* in the order of the step-2 candidates.
C8_DeepPassReplacesInPlace ==
    \A c \in Calls :
        LET r == call[c]
        IN  /\ \A i \in Passed(c) :
                IF IsEmbed(r.streams[i]) /\ ~ HasTerminalMarker(r.streams[i])
                THEN \E k \in DeepInvocations(r.log, i) :
                        /\ DeepInvocations(r.log, i) = {k}
                        /\ r.log[k].ex = EmbedHosts[r.streams[i].server].ex
                        /\ r.log[k].url = r.streams[i].link
                        /\ r.log[k].done
                        /\ r.pushed[i] = IF r.log[k].out # <<>> THEN r.log[k].out
                                         ELSE << r.streams[i] >>
                ELSE ~ IsEmbed(r.streams[i]) => r.pushed[i] = << r.streams[i] >>
            /\ Passed(c) # {} =>
                /\ Len(r.pushed) = Cardinality(Passed(c))
                /\ r.deepResolved = Flatten(r.pushed)
            /\ (r.pc = "done" /\ ~ r.hit /\ Len(r.streams) > 0) =>
                    r.result = r.deepResolved

\* a candidate without the marker was replaced by what its extractor returned
C8_Witness ==
    \E c \in Calls :
        /\ call[c].pc = "done" /\ ~ call[c].hit
        /\ Len(call[c].streams) = 1
        /\ IsEmbed(call[c].streams[1]) /\ ~ HasTerminalMarker(call[c].streams[1])
        /\ Len(call[c].log) = 2 /\ call[c].log[2].out # <<>>
        /\ call[c].result = call[c].log[2].out
        /\ call[c].result # call[c].streams

\* C9: for an embed-host candidate whose link holds the terminal marker the
\* deep pass invokes no extractor and puts the candidate itself, unchanged,
\* in the output.
C9_TerminalLinksPassThrough ==
    \A c \in Calls :
        \A i \in Passed(c) :
            (IsEmbed(call[c].streams[i]) /\ HasTerminalMarker(call[c].streams[i])) =>
                /\ DeepInvocations(call[c].log, i) = {}
                /\ call[c].pushed[i] = << call[c].streams[i] >>

\* a Streamtape candidate with get_video in its link is the final result
C9_Witness ==
    \E c \in Calls :
        /\ call[c].pc = "done" /\ ~ call[c].hit
        /\ Len(call[c].streams) = 1
        /\ call[c].streams[1].server = "Streamtape"
        /\ Includes(call[c].streams[1].link, "get_video")
        /\ Len(call[c].log) = 1
        /\ call[c].result = call[c].streams

\* the number of invocations on the chain from the call's URL to invocation k
RECURSIVE ChainLength(_, _)
ChainLength(log, k) ==
    IF log[k].parent = 0 THEN 1 ELSE 1 + ChainLength(log, log[k].parent)

\* C10: the deep pass runs once: each step-2 candidate gets at most one
\* extractor invocation, and no invocation is made on a link that an
\* invocation of the deep pass returned; every chain of invocations, the
\* aggregator-A call inside aggregator B included, has at most 2 links.
C10_DeepPassRunsOnce ==
    \A c \in Calls :
        LET log == call[c].log
        IN  /\ \A k \in 1..Len(log) :
                /\ ChainLength(log, k) <= 2
                /\ log[k].parent # 0 => log[log[k].parent].phase # "deep"
                /\ log[k].phase = "deep" =>
                      /\ log[k].cand \in 1..Len(call[c].streams)
                      /\ DeepInvocations(log, log[k].cand) = {k}
            /\ call[c].pc = "done" => \A k \in 1..Len(log) : log[k].done

\* the extractor invoked in the deep pass returned a link without the
\* terminal marker, and the call ended with it
C10_Witness ==
    \E c \in Calls :
        /\ call[c].pc = "done" /\ ~ call[c].hit
        /\ Len(call[c].log) = 2
        /\ call[c].log[2].phase = "deep"
        /\ Len(call[c].log[2].out) = 1
        /\ IsEmbed(call[c].log[2].out[1])
        /\ ~ HasTerminalMarker(call[c].log[2].out[1])
        /\ call[c].result = call[c].log[2].out

(***************************************************************************)
(* Further claims about the cache store (SpecCache)                        *)
(***************************************************************************)
\* C16: a get leaves the store as it is, also when the entry it finds is
\* stale: the store changes only in a put, and it never loses more than the
\* one entry a put evicts, so a stale entry stays until a put evicts or
\* overwrites it.
C16_GetLeavesStoreAlone ==
    [][ /\ nputs' = nputs => cacheStreams' = cacheStreams
        /\ Len(cacheStreams') < Len(cacheStreams) =>
              /\ nputs' = nputs + 1
              /\ lastOp'.op = "put"
              /\ Len(lastOp'.evicted) = 1 ]_vars

\* the full store was read when all its entries were stale, and it is still full
C16_Witness ==
    /\ lastOp.op = "get"
    /\ lastOp.result = Null
    /\ nputs = 0
    /\ Len(cacheStreams) = CACHE_LIMIT
    /\ MapHas(cacheStreams, lastOp.key)
    /\ \A n \in 1..Len(cacheStreams) :
          now - cacheStreams[n].timestamp >= CACHE_TTL.streams

\* C17: a put evicts only when the insertion would otherwise leave more than
\* 1000 entries; a put for a key that is present removes no entry of
\* another key.
C17_OverwriteEvictsNothing ==
    lastOp.op = "put" =>
        /\ Len(lastOp.evicted) > 0 =>
              lastOp.sizeBefore + (IF lastOp.overwrite THEN 0 ELSE 1) > CACHE_LIMIT
        /\ lastOp.overwrite =>
              \A n \in 1..Len(lastOp.evicted) : lastOp.evicted[n].key = lastOp.key

(***************************************************************************)
(* Claims about the candidates of the extractors (Spec)                    *)
(***************************************************************************)
\* a link with a scheme: not empty, not scheme-relative, not path-relative
Absolute(link) == Len(link) > 0 /\ LowerTok(link[1]) \in {"https:", "http:"}

AllAbsolute(streams) == \A n \in 1..Len(streams) : Absolute(streams[n].link)

\* C15: every candidate an extractor returned, every candidate resolveLink
\* returned and every candidate in the stream cache has a non-empty,
\* absolute link.
C15_LinksAbsolute ==
    /\ \A c \in Calls :
          /\ \A k \in 1..Len(call[c].log) :
                call[c].log[k].done => AllAbsolute(call[c].log[k].out)
          /\ call[c].pc = "done" => AllAbsolute(call[c].result)
    /\ \A n \in 1..Len(cacheStreams) : AllAbsolute(cacheStreams[n].data)

NoTwoSameLink(streams) ==
    \A m, n \in 1..Len(streams) : m # n => streams[m].link # streams[n].link

\* C18: the list one invocation of hubcloudExtractor or of gdflixExtractor
\* returned holds no two candidates with the same link.
C18_AggregatorLinksDistinct ==
    \A c \in Calls :
        \A k \in 1..Len(call[c].log) :
            (call[c].log[k].done /\ call[c].log[k].ex \in {"hubcloud", "gdflix"}) =>
                NoTwoSameLink(call[c].log[k].out)

(***************************************************************************)
(* Claims about failing fetches (Spec)                                     *)
(***************************************************************************)
Servers ==
    {"Pixeldrain", "Streamtape", "Doodstream", "Filemoon", "Mixdrop", "CfWorker",
     "CfStorage", "HubCdn", "Direct", "R2Storage", "FastDL"}

\* a list of candidates, possibly empty
IsStreamList(x) ==
    /\ DOMAIN x = 1..Len(x)
    /\ \A n \in 1..Len(x) :
          /\ x[n].server \in Servers
          /\ x[n].type \in {"m3u8", "mp4", "mkv"}

\* C12: whatever the fetches of an invocation yield, the extractor returns a
\* list, the empty one when a page-fetching extractor got no page; the call
\* goes on after every return, and once its last invocation has returned it
\* has completed with a list, the empty one when no invocation got a page.
C12_FailuresGiveEmptyLists ==
    \A c \in Calls :
        LET log == call[c].log
        IN  /\ \A k \in 1..Len(log) :
                  log[k].done =>
                     /\ IsStreamList(log[k].out)
                     /\ (log[k].ex # "pixeldrain" /\ ~ log[k].body) => log[k].out = <<>>
            /\ (Len(log) > 0 /\ \A k \in 1..Len(log) : log[k].done) =>
                  /\ call[c].pc = "done"
                  /\ IsStreamList(call[c].result)
                  /\ (\A k \in 1..Len(log) : log[k].ex # "pixeldrain" /\ ~ log[k].body)
                        => call[c].result = <<>>

\* both aggregators got no page and the call completed with the empty list
C12_Witness ==
    \E c \in Calls :
        /\ call[c].pc = "done" /\ ~ call[c].hit
        /\ Len(call[c].log) = 2
        /\ call[c].log[1].ex = "hubcloud" /\ ~ call[c].log[1].body
        /\ call[c].log[2].ex = "gdflix" /\ ~ call[c].log[2].body
        /\ call[c].result = <<>>
        /\ cacheStreams = <<>>

(***************************************************************************)
(* SpecRace: two resolveLink calls in flight at the same time on one       *)
(* cache.streams, for the same URL or for different ones.  The handler is  *)
(* async and the runtime runs one call from an await to the next before it *)
(* runs another, so the calls interleave at their awaits: each action is   *)
(* the code of one call between two awaits.                                *)
(***************************************************************************)
RaceUrls ==
    { Url(<<"pixeldrain">>, <<"/u/", "abc123">>),
      Url(<<"streamtape">>, <<"/u/", "abc123">>) }

InitRace ==
    /\ cacheStreams = <<>>
    /\ lastPut = <<>>
    /\ now = Now0
    /\ lastOp = [op |-> "none"]
    /\ nputs = 0
    /\ call = [c \in Calls |-> IdleCall]

RaceStart == \E c \in Calls, url \in RaceUrls : Start(c, url)

RaceStep2 == \E c \in Calls : \E net \in Nets(call[c].ex) : Step2Return(c, net)

RaceDeep == \E c \in Calls : \E net \in Nets(call[c].ex) : DeepReturn(c, net)

NextRace == RaceStart \/ RaceStep2 \/ RaceDeep \/ Tick

SpecRace == InitRace /\ [][NextRace]_vars

(***************************************************************************)
(* Claims about calls in flight at the same time (SpecRace)                *)
(***************************************************************************)
\* C11: an entry of the stream cache with a non-empty value keeps its value
\* and its timestamp in every step taken while it is fresh, whichever calls
\* are in flight.
C11_FreshEntryImmutable ==
    [][ \A n \in 1..Len(cacheStreams) :
          LET e == cacheStreams[n]
          IN  (Len(e.data) > 0 /\ now - e.timestamp < CACHE_TTL.streams) =>
                 MapGet(cacheStreams', e.key)
                    = [data |-> e.data, timestamp |-> e.timestamp] ]_vars

\* the calls that have ended with a put
Writers == {c \in Calls : call[c].pc = "done" /\ ~ call[c].hit /\ Len(call[c].result) > 0}

\* C13: the puts of calls in flight at the same time do not interfere: the
\* store holds one entry per key that was put, so its size is that of the
\* same puts in any sequential order, and the entry of each key (none is
\* evicted in a store this small) is the value of a call that put that key,
\* its own value when no other call put the same key; every put counted
\* once.
C13_PutsAreAtomic ==
    /\ \A m, n \in 1..Len(cacheStreams) :
          m # n => cacheStreams[m].key # cacheStreams[n].key
    /\ MapKeys(cacheStreams) = {call[c].url : c \in Writers}
    /\ Len(cacheStreams) = Cardinality({call[c].url : c \in Writers})
    /\ nputs = Cardinality(Writers)
    /\ \A c \in Writers :
          \E d \in Writers :
              /\ call[d].url = call[c].url
              /\ MapGet(cacheStreams, call[c].url).data = call[d].result

\* two calls for different URLs were in flight together and each one's
\* result is in the store
C13_Witness ==
    /\ Writers = Calls
    /\ call[1].url # call[2].url
    /\ Len(cacheStreams) = 2
    /\ \A c \in Calls : MapGet(cacheStreams, call[c].url).data = call[c].result
    /\ cacheStreams[1].timestamp = cacheStreams[2].timestamp

(***************************************************************************)
(* SpecLive: one resolveLink call and the remote hosts.  A host may answer *)
(* a fetch (the return actions), send the response and then stall in the   *)
(* body (Headers), or stay silent: nothing obliges it to act.  What the    *)
(* runtime guarantees is that an armed timer fires and that a call whose   *)
(* fetch was aborted runs on.  fetchHtml arms its timer before fetch() and *)
(* clears it as soon as fetch() resolves, before res.text(); fetchJson     *)
(* arms none.                                                              *)
(***************************************************************************)
\* pixeldrainExtractor starts with fetchJson, every other extractor with
\* fetchHtml
FetchKind(ex) == IF ex = "pixeldrain" THEN "json" ELSE "html"

\* setTimeout(() => controller.abort(), timeout) ... clearTimeout(timeoutId)
TimerArmed(rec) == rec.fetch = "sent" /\ FetchKind(rec.ex) = "html"

LiveUrls ==
    { Url(<<"pixeldrain">>, <<"/u/", "abc123">>),
      Url(<<"streamtape">>, <<"/u/", "abc123">>),
      Url(<<"example">>, <<"/u/", "abc123">>) }

LiveStart == \E c \in SeqCalls, url \in LiveUrls : Start(c, url)

\* fetch() resolved with the response: clearTimeout, then await res.text()
\* or await res.json()
Headers ==
    \E c \in SeqCalls :
        /\ call[c].fetch = "sent"
        /\ call' = [call EXCEPT ![c].fetch = "body"]
        /\ UNCHANGED <<cacheVars, now>>

\* the timer fires: controller.abort()
Timeout ==
    \E c \in SeqCalls :
        /\ TimerArmed(call[c])
        /\ call' = [call EXCEPT ![c].fetch = "aborted"]
        /\ UNCHANGED <<cacheVars, now>>

NextLive ==
    LiveStart \/ Headers \/ Timeout \/ ResolveStep2 \/ ResolveFallback \/ ResolveDeep

\* the step of a call whose fetch was aborted
AfterAbort == (\E c \in SeqCalls : call[c].fetch = "aborted") /\ NextLive

SpecLive == Init /\ [][NextLive]_vars /\ WF_vars(Timeout) /\ WF_vars(AfterAbort)

\* C14: every fetch of a call is ended by a timeout when the host stays
\* silent or stalls in the body, so every call that has started returns.
C14_EveryCallReturns ==
    \A c \in Calls : (call[c].pc # "idle") ~> (call[c].pc = "done")

====
